---- MODULE Spec2Model ----
(***************************************************************************)
(* Model of pkg/identity/cache/cell/cell.go: the construction of the       *)
(* identity allocator (newIdentityAllocator), the change-propagation owner *)
(* (identityAllocatorOwner.UpdateIdentities) with its sync.WaitGroup, and  *)
(* identityAllocatorOwner.GetNodeSuffix.                                   *)
(***************************************************************************)
EXTENDS Integers, Sequences, FiniteSets, TLC

\* ------------------------------------------------------------------ bounds
\* Number of identity handlers that can be registered in the
\* "identity-handlers" group.
MaxHandlers == 2
\* Number of UpdateIdentities calls issued in one behaviour (they may overlap).
MaxCalls == 2
\* Largest numeric identity that appears in a batch.
MaxIdentity == 1

HandlerIds == 1..MaxHandlers
Calls == 1..MaxCalls
Identities == 1..MaxIdentity

\* The policy selector cache, iao.policy.GetSelectorCache().
SC == 0
Consumers == HandlerIds \cup {SC}

\* identity.IdentityMap values, represented by their key sets.
IdentityMaps == SUBSET Identities

\* The (added, deleted) pairs a caller may pass: the caller keeps the two
\* key sets disjoint (cell.go:143-144).
Batches ==
  {b \in [added : IdentityMaps, deleted : IdentityMaps] : b.added \cap b.deleted = {}}

\* The possible contents of params.IdentityHandlers.
\* Each registered handler is a distinct object, so the list has no repeats.
HandlerLists ==
  {s \in UNION {[1..m -> HandlerIds] : m \in 0..MaxHandlers} :
     \A i, j \in DOMAIN s : i # j => s[i] # s[j]}

NoBatch == [added |-> {}, deleted |-> {}]

\* Largest identity the allocator hands out.
MaxAllocId == 2
AllocIds == 1..MaxAllocId

\* References consumers take on one identity.
MaxRefs == 2
\* Calls made on the no-op allocator in one behaviour.
MaxNoopCalls == 3
\* ReleaseRestoredIdentities calls made in one behaviour.
MaxReleaseCalls == 2

\* A nil net.IP.
Nil == << >>

VARIABLES
  netPolicyEnabled,  \* netPolicySystemIsEnabled(option.Config)
  identityHandlers,  \* iao.identityHandlers
  idAlloc,           \* the allocator built by newIdentityAllocator
  out,               \* identityAllocatorOut
  pc,                \* pc[c]: position of call c in UpdateIdentities
  idx,               \* idx[c]: position of the range loop over the handlers
  args,              \* args[c]: the (added, deleted) the caller passed
  wg,                \* wg[w]: counter of WaitGroup w
  cons,              \* cons[c][k]: progress of consumer k on call c's batch
  recv,              \* recv[c][k]: the batches consumer k received in call c
  triggers,          \* the TriggerPolicyUpdates calls made so far
  log,               \* log[c]: the consumer calls and returns of call c, in order
  refcount,          \* refcount[n]: reference count of identity n (0: absent)
  held,              \* held[n]: references consumers hold on identity n
  restored,          \* identities whose restoration hold is not yet released
  restoreResult,     \* identities RestoreLocalIdentities returned
  phase,             \* Uninitialized, Restoring or Active
  checkpoint,        \* the checkpoint on disk
  ckptRead,          \* the checkpoint has been read
  ckptWritten,       \* the checkpoint has been written
  closed,            \* Close() has been called on the caching allocator
  releaseCalls,      \* number of ReleaseRestoredIdentities calls made
  noopCalls,         \* the calls made on the no-op allocator, in order
  enableIPv4,        \* option.Config.EnableIPv4
  enableIPv6,        \* option.Config.EnableIPv6
  nodeIPv4,          \* node.GetIPv4()
  nodeIPv6,          \* node.GetIPv6()
  suffix             \* outcome of the last GetNodeSuffix call

configVars == <<netPolicyEnabled, identityHandlers, idAlloc, out>>
ownerVars == <<pc, idx, args, wg, cons, recv, triggers, log>>
allocVars == <<refcount, held, restored, restoreResult, phase, checkpoint,
               ckptRead, ckptWritten, closed, releaseCalls, noopCalls>>
nodeVars == <<enableIPv4, enableIPv6, nodeIPv4, nodeIPv6, suffix>>
vars == <<configVars, ownerVars, allocVars, nodeVars>>

\* ------------------------------------------------------------ construction
\* cache.NewCachingIdentityAllocator(iao, allocatorConfig) followed by
\* EnableCheckpointing(): the allocator holds the owner.
NewCachingIdentityAllocator ==
  [kind |-> "caching", owner |-> "iao", checkpointing |-> TRUE]

\* cache.NewNoopIdentityAllocator(): built without the owner.
NewNoopIdentityAllocator ==
  [kind |-> "noop", owner |-> "none", checkpointing |-> FALSE]

\* A plausible slip: the branches of the variant choice are exchanged.
ChooseAllocatorInverted(enabled) ==
  IF enabled THEN NewNoopIdentityAllocator ELSE NewCachingIdentityAllocator

\* The variant choice of newIdentityAllocator.
ChooseAllocator(enabled) ==
  IF enabled THEN NewCachingIdentityAllocator ELSE NewNoopIdentityAllocator

\* newIdentityAllocator: the owner, the allocator and the exported roles.
newIdentityAllocator(enabled, handlers) ==
  LET alloc == ChooseAllocator(enabled)
  IN  [iao |-> [identityHandlers |-> handlers],
       idAlloc |-> alloc,
       out |-> [IdentityAllocator |-> alloc,
                CacheIdentityAllocator |-> alloc,
                RemoteIdentityWatcher |-> alloc,
                IdentityObservable |-> alloc]]

\* ------------------------------------------------------------------- owner
\* A plausible slip: one WaitGroup kept in the owner and used by every call.
SharedWaitGroup(c) == 1
\* wg := &sync.WaitGroup{}: every call makes a WaitGroup of its own.
NewWaitGroup(c) == c

\* A plausible slip: the loop stops one handler short.
LoopDoneEarly(c) == idx[c] >= Len(identityHandlers)
\* The range loop over iao.identityHandlers has run to its end.
LoopDone(c) == idx[c] > Len(identityHandlers)

\* A plausible slip: added and deleted are passed in the wrong order.
ArgsSwapped(c) == [added |-> args[c].deleted, deleted |-> args[c].added]
\* The arguments handed to a consumer: the caller's added and deleted.
ConsumerArgs(c) == args[c]

\* A plausible change: a bounded wait that gives up on the consumers.
WaitTimesOut(c) == TRUE
\* A plausible slip: the wait returns with one acknowledgment outstanding.
WaitOffByOne(c) == wg[NewWaitGroup(c)] <= 1
\* wg.Wait() returns when the counter is zero.
WaitReturns(c) == wg[NewWaitGroup(c)] = 0

\* A plausible slip: the trigger asks for a forced recomputation.
ForcedTriggerRequest ==
  [force |-> TRUE, reason |-> "one or more identities created or deleted"]
\* The request passed to TriggerPolicyUpdates.
TriggerRequest ==
  [force |-> FALSE, reason |-> "one or more identities created or deleted"]

\* How a consumer treats a batch: it finishes inside its UpdateIdentities
\* call ("sync"), or it calls wg.Add(1) inside the call and wg.Done() later
\* ("async"), or it calls wg.Add(1) and never calls wg.Done() ("hung").
Modes == {"sync", "async", "hung"}

\* The effect of a consumer's UpdateIdentities call returning.
ConsumerReturn(c, k, mode) ==
  /\ cons' = [cons EXCEPT ![c][k] =
                CASE mode = "sync" -> "acked"
                  [] mode = "async" -> "pending"
                  [] mode = "hung" -> "hung"]
  /\ wg' = IF mode = "sync" THEN wg
           ELSE [wg EXCEPT ![NewWaitGroup(c)] = @ + 1]

\* The entry of UpdateIdentities(added, deleted) and wg := &sync.WaitGroup{}.
\* Only a caller that holds the owner can make the call.
EnterUpdateIdentities(c, b) ==
  /\ idAlloc.owner = "iao"
  /\ pc[c] = "idle"
  /\ \A d \in Calls : d < c => pc[d] # "idle"
  /\ pc' = [pc EXCEPT ![c] = "loop"]
  /\ idx' = [idx EXCEPT ![c] = 1]
  /\ args' = [args EXCEPT ![c] = b]
  /\ wg' = [wg EXCEPT ![NewWaitGroup(c)] = 0]
  /\ UNCHANGED <<cons, recv, triggers, log>>

\* A caller passes a batch to UpdateIdentities(added, deleted).
UpdateIdentities(c, b) ==
  /\ EnterUpdateIdentities(c, b)
  /\ UNCHANGED <<configVars, allocVars, nodeVars>>

\* handler.UpdateIdentities(added, deleted, wg) is called.
HandlerCall(c) ==
  /\ pc[c] = "loop"
  /\ ~LoopDone(c)
  /\ LET k == identityHandlers[idx[c]]
     IN  /\ cons' = [cons EXCEPT ![c][k] = "called"]
         /\ recv' = [recv EXCEPT ![c][k] = Append(@, ConsumerArgs(c))]
         /\ log' = [log EXCEPT ![c] = Append(@, <<"call", k, "">>)]
  /\ pc' = [pc EXCEPT ![c] = "inHandler"]
  /\ UNCHANGED <<configVars, allocVars, nodeVars, idx, args,
                 wg, triggers>>

\* handler.UpdateIdentities returns; the loop moves to the next handler.
HandlerReturn(c, mode) ==
  /\ pc[c] = "inHandler"
  /\ ConsumerReturn(c, identityHandlers[idx[c]], mode)
  /\ log' = [log EXCEPT ![c] = Append(@, <<"return", identityHandlers[idx[c]], mode>>)]
  /\ idx' = [idx EXCEPT ![c] = @ + 1]
  /\ pc' = [pc EXCEPT ![c] = "loop"]
  /\ UNCHANGED <<configVars, allocVars, nodeVars, args, recv,
                 triggers>>

\* iao.policy.GetSelectorCache().UpdateIdentities(added, deleted, wg) is
\* called, after the loop.
SelectorCacheCall(c) ==
  /\ pc[c] = "loop"
  /\ LoopDone(c)
  /\ cons' = [cons EXCEPT ![c][SC] = "called"]
  /\ recv' = [recv EXCEPT ![c][SC] = Append(@, ConsumerArgs(c))]
  /\ log' = [log EXCEPT ![c] = Append(@, <<"call", SC, "">>)]
  /\ pc' = [pc EXCEPT ![c] = "inSelector"]
  /\ UNCHANGED <<configVars, allocVars, nodeVars, idx, args,
                 wg, triggers>>

\* The selector cache's UpdateIdentities returns.
SelectorCacheReturn(c, mode) ==
  /\ pc[c] = "inSelector"
  /\ ConsumerReturn(c, SC, mode)
  /\ log' = [log EXCEPT ![c] = Append(@, <<"return", SC, mode>>)]
  /\ pc' = [pc EXCEPT ![c] = "wait"]
  /\ UNCHANGED <<configVars, allocVars, nodeVars, idx, args,
                 recv, triggers>>

\* A consumer that works asynchronously finishes and calls wg.Done().
ConsumerDone(c, k) ==
  /\ cons[c][k] = "pending"
  /\ cons' = [cons EXCEPT ![c][k] = "acked"]
  /\ wg' = [wg EXCEPT ![NewWaitGroup(c)] = @ - 1]
  /\ UNCHANGED <<configVars, allocVars, nodeVars, pc, idx,
                 args, recv, triggers, log>>

\* wg.Wait() returns.
Wait(c) ==
  /\ pc[c] = "wait"
  /\ WaitReturns(c)
  /\ pc' = [pc EXCEPT ![c] = "trigger"]
  /\ UNCHANGED <<configVars, allocVars, nodeVars, idx, args,
                 wg, cons, recv, triggers, log>>

\* iao.policyUpdater.TriggerPolicyUpdates(false, "..."), then the call returns.
TriggerPolicyUpdates(c) ==
  /\ pc[c] = "trigger"
  /\ triggers' = Append(triggers, [call |-> c, request |-> TriggerRequest])
  /\ pc' = [pc EXCEPT ![c] = "done"]
  /\ UNCHANGED <<configVars, allocVars, nodeVars, idx, args,
                 wg, cons, recv, log>>

\* --------------------------------------------------------------- allocator
\* The allocator is used by one caller at a time: a call that changes the set
\* of live identities hands the batch to the owner and returns when
\* UpdateIdentities has returned.
Quiescent == \A c \in Calls : pc[c] \in {"idle", "done"}

\* Hand a batch to the owner, if the set of live identities changed.
Emit(added, deleted) ==
  IF added = {} /\ deleted = {}
  THEN UNCHANGED ownerVars
  ELSE \E c \in Calls : EnterUpdateIdentities(c, [added |-> added, deleted |-> deleted])

\* The checkpoint holds the live identities after a change of that set.
Save(live, changed) ==
  IF changed /\ idAlloc.checkpointing
  THEN checkpoint' = [status |-> "ok", ids |-> live] /\ ckptWritten' = TRUE
  ELSE UNCHANGED <<checkpoint, ckptWritten>>

\* The identities with a reference, for a reference-count function.
Live(rc) == {n \in AllocIds : rc[n] > 0}

\* Allocate on the caching allocator: reuse the identity of the label set and
\* count a reference, or create it with one reference.
Allocate(n) ==
  /\ idAlloc.kind = "caching"
  /\ ~closed
  /\ Quiescent
  /\ held[n] < MaxRefs
  /\ refcount' = [refcount EXCEPT ![n] = @ + 1]
  /\ held' = [held EXCEPT ![n] = @ + 1]
  /\ Emit(IF refcount[n] = 0 THEN {n} ELSE {}, {})
  /\ Save(Live(refcount'), refcount[n] = 0)
  /\ UNCHANGED <<configVars, nodeVars, restored, restoreResult, phase,
                 ckptRead, closed, releaseCalls, noopCalls>>

\* Release on the caching allocator: drop a reference a consumer holds; the
\* identity is removed when none is left.
Release(n) ==
  /\ idAlloc.kind = "caching"
  /\ ~closed
  /\ Quiescent
  /\ held[n] > 0
  /\ refcount' = [refcount EXCEPT ![n] = @ - 1]
  /\ held' = [held EXCEPT ![n] = @ - 1]
  /\ Emit({}, IF refcount[n] = 1 THEN {n} ELSE {})
  /\ Save(Live(refcount'), refcount[n] = 1)
  /\ UNCHANGED <<configVars, nodeVars, restored, restoreResult, phase,
                 ckptRead, closed, releaseCalls, noopCalls>>

\* The checkpoint could be loaded.
Loadable == checkpoint.status = "ok"

\* RestoreLocalIdentities: read the checkpoint and allocate a reference to
\* every identity in it; a failed load leaves the allocator empty.
RestoreLocalIdentities ==
  /\ idAlloc.kind = "caching"
  /\ ~closed
  /\ Quiescent
  /\ phase = "Uninitialized"
  /\ phase' = "Restoring"
  /\ ckptRead' = TRUE
  /\ LET loaded == IF Loadable THEN checkpoint.ids ELSE {}
     IN  /\ refcount' = [n \in AllocIds |->
                           IF n \in loaded THEN refcount[n] + 1 ELSE refcount[n]]
         /\ restored' = loaded
         /\ restoreResult' = loaded
         /\ Emit({n \in loaded : refcount[n] = 0}, {})
  /\ UNCHANGED <<configVars, nodeVars, held, checkpoint, ckptWritten, closed,
                 releaseCalls, noopCalls>>

\* A plausible slip: the restored identities are not forgotten once released.
RestoredKept == restored
\* The restored identities left to release after ReleaseRestoredIdentities.
RestoredAfterRelease == {}

\* ReleaseRestoredIdentities: release the reference held on every restored
\* identity, once.
ReleaseRestoredIdentities ==
  /\ idAlloc.kind = "caching"
  /\ ~closed
  /\ Quiescent
  /\ releaseCalls < MaxReleaseCalls
  /\ releaseCalls' = releaseCalls + 1
  /\ phase' = IF phase = "Restoring" THEN "Active" ELSE phase
  /\ refcount' = [n \in AllocIds |->
                    IF n \in restored THEN refcount[n] - 1 ELSE refcount[n]]
  /\ restored' = RestoredAfterRelease
  /\ Emit({}, {n \in restored : refcount[n] = 1})
  /\ Save(Live(refcount'), \E n \in restored : refcount[n] = 1)
  /\ UNCHANGED <<configVars, nodeVars, held, restoreResult, ckptRead, closed,
                 noopCalls>>

\* A call on the no-op allocator: nothing is allocated, persisted or
\* propagated.
NoopCall(name) ==
  /\ idAlloc.kind = "noop"
  /\ Len(noopCalls) < MaxNoopCalls
  /\ noopCalls' = Append(noopCalls, name)
  /\ UNCHANGED <<configVars, ownerVars, nodeVars, refcount, held, restored,
                 restoreResult, phase, checkpoint, ckptRead, ckptWritten, closed, releaseCalls>>

NoopAllocate == NoopCall("Allocate")
NoopRelease == NoopCall("Release")
NoopRestoreLocalIdentities == NoopCall("RestoreLocalIdentities")
NoopReleaseRestoredIdentities == NoopCall("ReleaseRestoredIdentities")
NoopClose == NoopCall("Close")

\* The OnStop hook: idAlloc.Close() on the caching allocator.
OnStop ==
  /\ idAlloc.kind = "caching"
  /\ ~closed
  /\ closed' = TRUE
  /\ UNCHANGED <<configVars, ownerVars, nodeVars, refcount, held, restored,
                 restoreResult, phase, checkpoint, ckptRead, ckptWritten,
                 releaseCalls, noopCalls>>

\* ----------------------------------------------------------- GetNodeSuffix
\* The addresses node.GetIPv4() can hold once known: 4-byte addresses and a
\* 16-byte IPv4-mapped one.
V4Addrs ==
  { <<10, 0, 0, 1>>,
    <<192, 168, 1, 10>>,
    <<0, 0, 0, 0, 0, 0, 0, 0, 0, 0, 255, 255, 172, 16, 0, 5>> }

\* The addresses node.GetIPv6() can hold once known.
V6Addrs ==
  { <<253, 0, 0, 0, 0, 0, 0, 0, 0, 0, 0, 0, 0, 0, 0, 1>>,
    <<32, 1, 13, 184, 0, 0, 0, 0, 0, 1, 0, 0, 0, 0, 171, 205>>,
    <<254, 128, 0, 0, 0, 0, 0, 0, 2, 0, 0, 255, 254, 0, 0, 0>> }

HexDigits ==
  <<"0", "1", "2", "3", "4", "5", "6", "7", "8", "9", "a", "b", "c", "d", "e", "f">>

RECURSIVE Hex(_)
\* Lower-case hexadecimal without leading zeros.
Hex(v) == IF v < 16 THEN HexDigits[v + 1] ELSE Hex(v \div 16) \o HexDigits[(v % 16) + 1]

\* Two hexadecimal digits of one byte.
HexByte(b) == HexDigits[(b \div 16) + 1] \o HexDigits[(b % 16) + 1]

RECURSIVE HexString(_)
HexString(ip) == IF ip = << >> THEN "" ELSE HexByte(Head(ip)) \o HexString(Tail(ip))

\* net.IP.To4: the 4-byte form of an IPv4 or IPv4-mapped address, else nil.
To4(ip) ==
  IF Len(ip) = 4 THEN ip
  ELSE IF /\ Len(ip) = 16
          /\ \A i \in 1..10 : ip[i] = 0
          /\ ip[11] = 255
          /\ ip[12] = 255
       THEN SubSeq(ip, 13, 16)
       ELSE Nil

\* The i-th 16-bit group of a 16-byte address, i in 0..7.
Group(ip, i) == ip[2 * i + 1] * 256 + ip[2 * i + 2]

RECURSIVE ZeroRunEnd(_, _)
\* End (exclusive) of the run of zero groups that starts at j.
ZeroRunEnd(ip, j) ==
  IF j < 8 /\ Group(ip, j) = 0 THEN ZeroRunEnd(ip, j + 1) ELSE j

RECURSIVE LongestZeroRun(_, _, _)
\* The first longest run of at least two zero groups, <<255, 255>> if none.
LongestZeroRun(ip, i, best) ==
  IF i >= 8 THEN best
  ELSE LET j == ZeroRunEnd(ip, i)
       IN  LongestZeroRun(ip, i + 1,
             IF j - i >= 2 /\ j - i > best[2] - best[1] THEN <<i, j>> ELSE best)

RECURSIVE String6From(_, _, _)
\* The groups from i on, with the run replaced by "::".
String6From(ip, i, run) ==
  IF i >= 8 THEN ""
  ELSE IF i = run[1]
       THEN "::" \o (IF run[2] >= 8 THEN ""
                     ELSE Hex(Group(ip, run[2])) \o String6From(ip, run[2] + 1, run))
       ELSE (IF i > 0 THEN ":" ELSE "")
              \o Hex(Group(ip, i)) \o String6From(ip, i + 1, run)

\* net.IP.String().
IPString(ip) ==
  IF Len(ip) = 0 THEN "<nil>"
  ELSE IF Len(ip) # 4 /\ Len(ip) # 16 THEN "?" \o HexString(ip)
  ELSE IF Len(To4(ip)) = 4
       THEN LET p == To4(ip)
            IN  ToString(p[1]) \o "." \o ToString(p[2]) \o "."
                  \o ToString(p[3]) \o "." \o ToString(p[4])
       ELSE String6From(ip, 0, LongestZeroRun(ip, 0, <<255, 255>>))

\* A plausible slip: fall back to IPv6 when the IPv4 address is not known.
SelectNodeIPWithFallback(e4, e6, ip4, ip6) ==
  IF e4 /\ ip4 # Nil THEN ip4
  ELSE IF e6 THEN ip6
  ELSE Nil

\* The switch of GetNodeSuffix: the first enabled family decides.
SelectNodeIP(e4, e6, ip4, ip6) ==
  IF e4 THEN ip4
  ELSE IF e6 THEN ip6
  ELSE Nil

\* The outcome of GetNodeSuffix: log.Fatal on a nil address, else its string.
NodeSuffix(e4, e6, ip4, ip6) ==
  LET ip == SelectNodeIP(e4, e6, ip4, ip6)
  IN  IF ip = Nil THEN [state |-> "fatal", value |-> ""]
      ELSE [state |-> "returned", value |-> IPString(ip)]

\* iao.GetNodeSuffix() is called in a running process.
GetNodeSuffix ==
  /\ suffix.state # "fatal"
  /\ suffix' = NodeSuffix(enableIPv4, enableIPv6, nodeIPv4, nodeIPv6)
  /\ UNCHANGED <<configVars, ownerVars, allocVars, enableIPv4, enableIPv6,
                 nodeIPv4, nodeIPv6>>

\* The node's IPv4 address becomes known: node.GetIPv4() returns it from now on.
SetIPv4(a) ==
  /\ suffix.state # "fatal"
  /\ nodeIPv4 = Nil
  /\ nodeIPv4' = a
  /\ UNCHANGED <<configVars, ownerVars, allocVars, enableIPv4, enableIPv6,
                 nodeIPv6, suffix>>

\* The node's IPv6 address becomes known: node.GetIPv6() returns it from now on.
SetIPv6(a) ==
  /\ suffix.state # "fatal"
  /\ nodeIPv6 = Nil
  /\ nodeIPv6' = a
  /\ UNCHANGED <<configVars, ownerVars, allocVars, enableIPv4, enableIPv6,
                 nodeIPv4, suffix>>

\* --------------------------------------------------------- specifications
\* The owner before any call.
OwnerInit ==
  /\ pc = [c \in Calls |-> "idle"]
  /\ idx = [c \in Calls |-> 1]
  /\ args = [c \in Calls |-> NoBatch]
  /\ wg = [c \in Calls |-> 0]
  /\ cons = [c \in Calls |-> [k \in Consumers |-> "none"]]
  /\ recv = [c \in Calls |-> [k \in Consumers |-> << >>]]
  /\ triggers = << >>
  /\ log = [c \in Calls |-> << >>]

\* The result of newIdentityAllocator for some configuration.
ConfigInit ==
  /\ netPolicyEnabled \in BOOLEAN
  /\ identityHandlers \in HandlerLists
  /\ idAlloc = newIdentityAllocator(netPolicyEnabled, identityHandlers).idAlloc
  /\ out = newIdentityAllocator(netPolicyEnabled, identityHandlers).out

\* A fresh allocator with no checkpoint on disk.
AllocIdle ==
  /\ refcount = [n \in AllocIds |-> 0]
  /\ held = [n \in AllocIds |-> 0]
  /\ restored = {}
  /\ restoreResult = {}
  /\ phase = "Uninitialized"
  /\ checkpoint = [status |-> "unavailable", ids |-> {}]
  /\ ckptRead = FALSE
  /\ ckptWritten = FALSE
  /\ closed = FALSE
  /\ releaseCalls = 0
  /\ noopCalls = << >>

\* Both families enabled, no node address known, GetNodeSuffix not called.
NodeIdle ==
  /\ enableIPv4 = TRUE
  /\ enableIPv6 = TRUE
  /\ nodeIPv4 = Nil
  /\ nodeIPv6 = Nil
  /\ suffix = [state |-> "none", value |-> ""]

Init ==
  /\ ConfigInit
  /\ OwnerInit
  /\ AllocIdle
  /\ NodeIdle

Next ==
  \/ \E c \in Calls, b \in Batches : UpdateIdentities(c, b)
  \/ \E c \in Calls : HandlerCall(c)
  \/ \E c \in Calls, mode \in Modes : HandlerReturn(c, mode)
  \/ \E c \in Calls : SelectorCacheCall(c)
  \/ \E c \in Calls, mode \in Modes : SelectorCacheReturn(c, mode)
  \/ \E c \in Calls, k \in Consumers : ConsumerDone(c, k)
  \/ \E c \in Calls : Wait(c)
  \/ \E c \in Calls : TriggerPolicyUpdates(c)

Spec == Init /\ [][Next]_vars

\* The goroutine running UpdateIdentities keeps being scheduled, a consumer's
\* call returns, and a consumer that went asynchronous without hanging
\* eventually calls wg.Done().
Fairness ==
  \A c \in Calls :
    /\ WF_vars(HandlerCall(c))
    /\ WF_vars(\E mode \in Modes : HandlerReturn(c, mode))
    /\ WF_vars(SelectorCacheCall(c))
    /\ WF_vars(\E mode \in Modes : SelectorCacheReturn(c, mode))
    /\ WF_vars(Wait(c))
    /\ WF_vars(TriggerPolicyUpdates(c))
    /\ \A k \in Consumers : WF_vars(ConsumerDone(c, k))

FairSpec == Spec /\ Fairness

\* The allocator built by newIdentityAllocator, of either variant, with any
\* checkpoint on disk, and the owner it propagates changes through.
AllocInit ==
  /\ ConfigInit
  /\ OwnerInit
  /\ NodeIdle
  /\ refcount = [n \in AllocIds |-> 0]
  /\ held = [n \in AllocIds |-> 0]
  /\ restored = {}
  /\ restoreResult = {}
  /\ phase = "Uninitialized"
  /\ checkpoint \in
       {[status |-> "unavailable", ids |-> {}], [status |-> "corrupt", ids |-> {}]}
         \cup {[status |-> "ok", ids |-> ids] : ids \in SUBSET AllocIds}
  /\ ckptRead = FALSE
  /\ ckptWritten = FALSE
  /\ closed = FALSE
  /\ releaseCalls = 0
  /\ noopCalls = << >>

AllocNext ==
  \/ \E n \in AllocIds : Allocate(n)
  \/ \E n \in AllocIds : Release(n)
  \/ RestoreLocalIdentities
  \/ ReleaseRestoredIdentities
  \/ OnStop
  \/ NoopAllocate
  \/ NoopRelease
  \/ NoopRestoreLocalIdentities
  \/ NoopReleaseRestoredIdentities
  \/ NoopClose
  \/ \E c \in Calls : HandlerCall(c)
  \/ \E c \in Calls, mode \in Modes : HandlerReturn(c, mode)
  \/ \E c \in Calls : SelectorCacheCall(c)
  \/ \E c \in Calls, mode \in Modes : SelectorCacheReturn(c, mode)
  \/ \E c \in Calls, k \in Consumers : ConsumerDone(c, k)
  \/ \E c \in Calls : Wait(c)
  \/ \E c \in Calls : TriggerPolicyUpdates(c)

AllocSpec == AllocInit /\ [][AllocNext]_vars

\* GetNodeSuffix under every configuration of the address families and every
\* state of the node's addresses.
SuffixInit ==
  /\ ConfigInit
  /\ OwnerInit
  /\ AllocIdle
  /\ enableIPv4 \in BOOLEAN
  /\ enableIPv6 \in BOOLEAN
  /\ nodeIPv4 \in {Nil} \cup V4Addrs
  /\ nodeIPv6 \in {Nil} \cup V6Addrs
  /\ suffix = [state |-> "none", value |-> ""]

SuffixNext ==
  \/ GetNodeSuffix
  \/ \E a \in V4Addrs : SetIPv4(a)
  \/ \E a \in V6Addrs : SetIPv6(a)

SuffixSpec == SuffixInit /\ [][SuffixNext]_vars

\* ------------------------------------------------------------------ claims
\* The handlers registered with the owner.
Registered == {identityHandlers[i] : i \in DOMAIN identityHandlers}

\* The consumers notified by a call: the registered handlers and the
\* selector cache.
Notified == Registered \cup {SC}

\* TriggerPolicyUpdates has been called for call c.
Triggered(c) == \E i \in DOMAIN triggers : triggers[i].call = c

\* Consumer k has been handed call c's batch and has not yet acknowledged it.
Outstanding(c, k) == cons[c][k] \in {"called", "pending", "hung"}

\* Position of the first event of the given kind for consumer k in log[c],
\* 0 when there is none.
EventAt(c, kind, k) ==
  LET hits == {i \in DOMAIN log[c] : log[c][i][1] = kind /\ log[c][i][2] = k}
  IN  IF hits = {} THEN 0 ELSE CHOOSE i \in hits : \A j \in hits : i <= j

\* C1: while the selector cache is being notified of a batch, every
\* registered handler has acknowledged completion of that batch: the
\* notification never overlaps with a handler still processing the batch.
\* UpdateIdentities calls the selector cache right after the loop and waits
\* on the wait group only afterwards, so a handler that finishes its work
\* asynchronously is still processing when the selector cache is notified.
C1_SelectorAfterAllHandlersAcked ==
  \A c \in Calls :
    cons[c][SC] = "called" => \A k \in Registered : cons[c][k] = "acked"

\* C2: once the recomputation trigger of a call has fired, the selector cache
\* and every registered handler have acknowledged that call's batch.
C2_TriggerAfterAllAcks ==
  \A c \in Calls :
    (Triggered(c) \/ pc[c] \in {"trigger", "done"}) =>
      \A k \in Notified : cons[c][k] = "acked"

\* C2 witness: a trigger has fired for a batch that a handler and the
\* selector cache both processed asynchronously.
C2_Witness ==
  \E c \in Calls, k \in Registered :
    /\ Triggered(c)
    /\ \E i \in DOMAIN log[c] : log[c][i] = <<"return", k, "async">>
    /\ \E i \in DOMAIN log[c] : log[c][i] = <<"return", SC, "async">>

\* C3: the selector cache's UpdateIdentities call is made only after the call
\* of every registered handler has been made and has returned, and no handler
\* is called after it.
C3_SelectorCacheInvokedLast ==
  \A c \in Calls :
    EventAt(c, "call", SC) # 0 =>
      /\ \A k \in Registered :
           /\ 0 < EventAt(c, "call", k)
           /\ EventAt(c, "call", k) < EventAt(c, "return", k)
           /\ EventAt(c, "return", k) < EventAt(c, "call", SC)
      /\ \A i \in DOMAIN log[c] : i > EventAt(c, "call", SC) => log[c][i][2] = SC

\* C3 witness: two handlers registered in the order 2, 1 and the selector
\* cache has been called.
C3_Witness ==
  /\ identityHandlers = <<2, 1>>
  /\ \E c \in Calls : cons[c][SC] # "none"

\* C4: no consumer receives a batch twice or receives other maps than the
\* caller passed, handlers that are not registered receive nothing, and once
\* the selector cache's call has returned every registered handler and the
\* selector cache have received the caller's batch exactly once.
C4_DeliveredExactlyOnce ==
  \A c \in Calls :
    /\ \A k \in Consumers :
         /\ Len(recv[c][k]) <= 1
         /\ \A i \in DOMAIN recv[c][k] : recv[c][k][i] = args[c]
         /\ k \notin Notified => recv[c][k] = << >>
    /\ pc[c] \in {"wait", "trigger", "done"} =>
         \A k \in Notified : recv[c][k] = <<args[c]>>

\* C4 witness: a call with a non-empty batch has completed with no handler
\* registered, the selector cache having received the batch.
C4_Witness ==
  \E c \in Calls :
    /\ identityHandlers = << >>
    /\ pc[c] = "done"
    /\ args[c].added # {}
    /\ recv[c][SC] = <<args[c]>>

\* C5: a call has triggered recomputation exactly once when it has completed
\* and not at all before, every trigger is non-forced and carries a reason,
\* and every trigger belongs to a call whose batch was delivered.
C5_TriggerOncePerCallNotForced ==
  /\ \A c \in Calls :
       Cardinality({i \in DOMAIN triggers : triggers[i].call = c})
         = IF pc[c] = "done" THEN 1 ELSE 0
  /\ \A i \in DOMAIN triggers :
       /\ triggers[i].request.force = FALSE
       /\ triggers[i].request.reason # ""
       /\ recv[triggers[i].call][SC] # << >>

\* C5 witness: two calls have completed and two triggers have been recorded.
C5_Witness ==
  /\ \A c \in Calls : pc[c] = "done"
  /\ Len(triggers) = MaxCalls

\* Some consumer of call c's batch never signals completion.
Hung(c) == \E k \in Consumers : cons[c][k] = "hung"

\* C9: the barrier has no timeout: under fair scheduling a call that was
\* entered either completes (its trigger fired and it returned) or has a
\* consumer that never signals completion; a call with such a consumer never
\* reaches its trigger and never returns, and such a consumer stays hung.
C9_NoTimeoutOnBarrier ==
  /\ \A c \in Calls : (pc[c] # "idle") ~> (pc[c] = "done" \/ Hung(c))
  /\ [](\A c \in Calls : Hung(c) => pc[c] \notin {"trigger", "done"} /\ ~Triggered(c))
  /\ [][\A c \in Calls : Hung(c) => Hung(c)']_vars

\* C9 witness: one call has completed after its handlers and the selector
\* cache signalled completion asynchronously, while the other call is blocked
\* in wg.Wait() with every consumer but a hung one acknowledged.
C9_Witness ==
  \E c, d \in Calls :
    /\ pc[c] = "done"
    /\ \E i \in DOMAIN log[c] : log[c][i] = <<"return", SC, "async">>
    /\ pc[d] = "wait"
    /\ cons[d][SC] = "hung"
    /\ \A k \in Registered : cons[d][k] = "acked"

\* C10: each call waits on its own barrier only: a call that has reached
\* wg.Wait() and has no unacknowledged consumer of its own batch can proceed
\* to its trigger, whatever the state of the other calls.
C10_TriggerWaitsOnlyForOwnBatch ==
  \A c \in Calls :
    (pc[c] = "wait" /\ \A k \in Consumers : ~Outstanding(c, k)) => ENABLED Wait(c)

\* C10 witness: the second batch has been delivered and its trigger has fired
\* while the first call is still blocked on a handler that hangs on the first
\* batch and has not fired its trigger.
C10_Witness ==
  /\ MaxCalls >= 2
  /\ pc[1] = "wait"
  /\ ~Triggered(1)
  /\ \E k \in Registered : cons[1][k] = "hung"
  /\ Triggered(2)
  /\ recv[2][SC] # << >>

\* C6: with the network-policy subsystem disabled the allocator is the no-op
\* variant, built without the owner, and whatever calls were made on it no
\* batch has reached a handler or the selector cache, no recomputation was
\* triggered, no checkpoint was read or written and nothing was allocated;
\* with the subsystem enabled the allocator is the caching allocator bound to
\* the owner with checkpointing enabled; every exported role is that allocator.
C6_VariantChosenAtConstruction ==
  /\ ~netPolicyEnabled =>
       /\ idAlloc.kind = "noop"
       /\ idAlloc.owner = "none"
       /\ \A c \in Calls :
            /\ pc[c] = "idle"
            /\ \A k \in Consumers : recv[c][k] = << >> /\ cons[c][k] = "none"
       /\ triggers = << >>
       /\ ~ckptRead
       /\ ~ckptWritten
       /\ \A n \in AllocIds : refcount[n] = 0
  /\ netPolicyEnabled =>
       /\ idAlloc.kind = "caching"
       /\ idAlloc.owner = "iao"
       /\ idAlloc.checkpointing
       /\ noopCalls = << >>
  /\ out.IdentityAllocator = idAlloc
  /\ out.CacheIdentityAllocator = idAlloc
  /\ out.RemoteIdentityWatcher = idAlloc
  /\ out.IdentityObservable = idAlloc

\* C6 witness: the subsystem is disabled, handlers are registered, a checkpoint
\* is on disk, and Restore, Allocate and Release calls have been made.
C6_Witness ==
  /\ ~netPolicyEnabled
  /\ identityHandlers # << >>
  /\ checkpoint.status = "ok"
  /\ checkpoint.ids # {}
  /\ noopCalls = <<"RestoreLocalIdentities", "Allocate", "Release">>

\* C7: the reference count of an identity is the number of references
\* consumers hold on it plus one while its restoration hold is unreleased, so a
\* restored identity is present until ReleaseRestoredIdentities; holds exist
\* only between RestoreLocalIdentities and the next ReleaseRestoredIdentities,
\* and only on identities the restore returned; afterwards the count is the
\* consumers' references alone, also after a second ReleaseRestoredIdentities.
C7_RestorationHoldHeldOnce ==
  /\ \A n \in AllocIds :
       /\ refcount[n] = held[n] + (IF n \in restored THEN 1 ELSE 0)
       /\ n \in restored => refcount[n] >= 1
  /\ restored \subseteq restoreResult
  /\ phase = "Restoring" => restored = restoreResult
  /\ phase # "Restoring" => restored = {}
  /\ phase = "Active" => \A n \in AllocIds : refcount[n] = held[n]

\* C7 witness: two identities were restored, a consumer took a reference on
\* one of them, and ReleaseRestoredIdentities has been called twice: the one
\* is left with the consumer's reference, the other is gone.
C7_Witness ==
  /\ restoreResult = AllocIds
  /\ releaseCalls = 2
  /\ phase = "Active"
  /\ \E n, m \in AllocIds :
       /\ refcount[n] = 1
       /\ held[n] = 1
       /\ refcount[m] = 0

\* C8: GetNodeSuffix returns a suffix only when the address of the selected
\* family is known, and then the suffix is the string form of the IPv4 address
\* if IPv4 is enabled and of the IPv6 address if only IPv6 is enabled; when the
\* process was stopped by the fatal log, the address of the selected family
\* was unknown or no family was enabled.
C8_NodeSuffixFromKnownAddress ==
  /\ suffix.state = "returned" =>
       \/ /\ enableIPv4
          /\ nodeIPv4 # Nil
          /\ suffix.value = IPString(nodeIPv4)
          /\ suffix.value \in {"10.0.0.1", "192.168.1.10", "172.16.0.5"}
       \/ /\ ~enableIPv4
          /\ enableIPv6
          /\ nodeIPv6 # Nil
          /\ suffix.value = IPString(nodeIPv6)
          /\ suffix.value \in {"fd00::1", "2001:db8::1:0:0:abcd", "fe80::200:ff:fe00:0"}
  /\ suffix.state = "fatal" =>
       /\ suffix.value = ""
       /\ \/ enableIPv4 /\ nodeIPv4 = Nil
          \/ ~enableIPv4 /\ enableIPv6 /\ nodeIPv6 = Nil
          \/ ~enableIPv4 /\ ~enableIPv6

\* C8 witness: both families are enabled, only the IPv6 address is known, and
\* GetNodeSuffix stopped the process.
C8_Witness ==
  /\ enableIPv4
  /\ enableIPv6
  /\ nodeIPv4 = Nil
  /\ nodeIPv6 # Nil
  /\ suffix.state = "fatal"

====
